---- MODULE Spec2Model ----
(***************************************************************************)
(* Model of ml4tc/scripts/run_mca_for_shapley_maps.py: the covariance      *)
(* loader (_read_covariance_matrix), the aggregation loop and the MCA      *)
(* stages of _run, and the result writer (_write_mca_results).             *)
(*                                                                         *)
(* File names are tuples of one-character strings, so that endswith() and  *)
(* the slice-and-format extension swap are computed, not assumed.          *)
(***************************************************************************)
EXTENDS Integers, Sequences, FiniteSets, TLC

VARIABLES
    fs,                     \* the file system: name -> entry
    pc,                     \* position of the caller (the harness or _run)
    rpc,                    \* position inside _read_covariance_matrix
    covariance_file_name,   \* the loader's parameter (reassigned by the swap)
    rd_covariance_matrix,   \* the loader's local covariance_matrix
    netcdf_file_name,       \* the loader's local
    zarr_file_name,         \* the loader's local
    ret,                    \* what the last loader call returned or raised
    calls,                  \* log of the loader calls
    error,                  \* the exception that ended _run, if any
    \* locals of _run, aggregation loop
    covariance_matrix,
    num_covariance_pixels,
    files_read,             \* what saliency.read_file returned, file by file
    spatial_coarsening_factor,
    shapley_matrix,
    norm_predictor_matrix,
    \* locals of _run, MCA stages (arrays of reals are kept as their shapes)
    norm_shapley_matrix,
    double_norm_predictor_matrix,
    num_examples,
    num_grid_rows,
    num_grid_columns,
    num_pixels,
    n_components,
    predictor_singular_value_matrix,
    eigenvalues,
    shapley_singular_value_matrix,
    shapley_expansion_coeff_matrix,
    predictor_expansion_coeff_matrix,
    regressed_shapley_matrix,
    regressed_predictor_matrix,
    \* the result writer
    store,                  \* the directory at the output path
    wpc,                    \* position inside _write_mca_results
    wargs,                  \* the arrays the writer was called with
    wcalls                  \* log of the writer calls

loaderVars == <<rpc, covariance_file_name, rd_covariance_matrix,
                netcdf_file_name, zarr_file_name, ret, calls>>

loopVars == <<covariance_matrix, num_covariance_pixels, files_read,
              spatial_coarsening_factor, shapley_matrix, norm_predictor_matrix>>

mcaVars == <<norm_shapley_matrix, double_norm_predictor_matrix, num_examples,
             num_grid_rows, num_grid_columns, num_pixels, n_components,
             predictor_singular_value_matrix, eigenvalues,
             shapley_singular_value_matrix, shapley_expansion_coeff_matrix,
             predictor_expansion_coeff_matrix, regressed_shapley_matrix,
             regressed_predictor_matrix>>

writerVars == <<store, wpc, wargs, wcalls>>

vars == <<fs, pc, error, loaderVars, loopVars, mcaVars, writerVars>>

----------------------------------------------------------------------------
(* Bounds of the model *)

\* number of loader calls the harness makes in a row
MaxCalls == 3

----------------------------------------------------------------------------
(* Strings *)

NcExt == <<".", "n", "c">>
ZarrExt == <<".", "z", "a", "r", "r">>

\* str.endswith
EndsWith(s, suffix) ==
    /\ Len(s) >= Len(suffix)
    /\ SubSeq(s, Len(s) - Len(suffix) + 1, Len(s)) = suffix

\* s[:-n] for a string of at least n characters
DropLast(s, n) == SubSeq(s, 1, Len(s) - n)

\* '{0:s}.zarr'.format(name[:-3])
NcToZarr(name) == DropLast(name, Len(NcExt)) \o ZarrExt

\* '{0:s}.nc'.format(name[:-5])
ZarrToNc(name) == DropLast(name, Len(ZarrExt)) \o NcExt

NcName == <<"c">> \o NcExt
ZarrName == <<"c">> \o ZarrExt
NoName == <<>>

\* the covariance paths a caller may pass: the two recognized ones, and paths
\* that end in neither extension (one of them ends in "nc" without the dot)
OtherNames == {<<"c", ".", "t", "x", "t">>, <<"c", "n", "c">>, <<"c">>}
PathArgs == {NcName, ZarrName} \cup OtherNames

----------------------------------------------------------------------------
(* Covariance matrices and the file system *)

\* a P-by-P covariance matrix: its pixel count P and its contents (a tag)
CovMatrix(p, t) == [pixels |-> p, tag |-> t]
NoMatrix == CovMatrix(0, "none")
CovMatrices == {CovMatrix(100, "a"), CovMatrix(2, "b")}

NoEntry == [kind |-> "none", data |-> NoMatrix]
File(m) == [kind |-> "file", data |-> m]
Dir(m) == [kind |-> "dir", data |-> m]

FsNames == {NcName, ZarrName}

Lookup(name) == IF name \in DOMAIN fs THEN fs[name] ELSE NoEntry

\* os.path.isfile, os.path.isdir
IsFile(name) == Lookup(name).kind = "file"
IsDir(name) == Lookup(name).kind = "dir"

\* the initial disk: each representation absent or holding a matrix
DiskStates ==
    { [n \in FsNames |-> IF n = NcName THEN a ELSE b] :
        a \in {NoEntry} \cup {File(m) : m \in CovMatrices},
        b \in {NoEntry} \cup {Dir(m) : m \in CovMatrices} }

----------------------------------------------------------------------------
(* Array values: IEEE floating-point numbers, finite ones as exact fractions *)

Fraction(n, d) == [kind |-> "finite", num |-> n, den |-> d]
Fin(n) == Fraction(n, 1)
NaN == [kind |-> "nan", num |-> 0, den |-> 1]
PosInf == [kind |-> "inf", num |-> 1, den |-> 1]
NegInf == [kind |-> "inf", num |-> -1, den |-> 1]

\* numpy.isfinite
IsFinite(x) == x.kind = "finite"

Abs(n) == IF n < 0 THEN -n ELSE n
Sign(n) == IF n < 0 THEN -1 ELSE IF n > 0 THEN 1 ELSE 0

RECURSIVE Gcd(_, _)
Gcd(a, b) == IF b = 0 THEN a ELSE Gcd(b, a % b)

\* the fraction n/d (d # 0) in lowest terms, denominator positive
Reduced(n, d) ==
    LET g == Gcd(Abs(n), Abs(d)) IN
    Fraction(Sign(d) * (n \div g), Abs(d) \div g)

\* one element of numpy.divide(x, y): IEEE division, which raises nothing
Divide(x, y) ==
    IF x.kind = "nan" \/ y.kind = "nan" THEN NaN
    ELSE IF x.kind = "inf"
    THEN IF y.kind = "inf" THEN NaN
         ELSE IF y.num < 0 THEN (IF x.num > 0 THEN NegInf ELSE PosInf)
         ELSE x
    ELSE IF y.kind = "inf" THEN Fin(0)
    ELSE IF y.num = 0
    THEN IF x.num = 0 THEN NaN
         ELSE IF x.num > 0 THEN PosInf ELSE NegInf
    ELSE Reduced(x.num * y.den, x.den * y.num)

\* mutant: only infinities are masked
MaskInfOnly(x) == IF x.kind = "inf" THEN Fin(0) ELSE x

\* lines 284-286: matrix[invert(isfinite(matrix))] = 0., for one element
Mask(x) == IF ~IsFinite(x) THEN Fin(0) ELSE x

----------------------------------------------------------------------------
(* Shapes, and the locals of _run before they are bound *)

None == <<>>
Unbound == -1

\* an exception that ends _run: its kind, the line that raised it, and the
\* sizes the run had bound by then
RunError(k, l, orig, cov, ex) ==
    [kind |-> k, line |-> l, num_orig_pixels |-> orig,
     num_covariance_pixels |-> cov, num_examples |-> ex]
NoError == RunError("none", 0, Unbound, Unbound, Unbound)

InitRunLocals ==
    /\ covariance_matrix = NoMatrix
    /\ num_covariance_pixels = Unbound
    /\ files_read = <<>>
    /\ spatial_coarsening_factor = Unbound
    /\ shapley_matrix = None
    /\ norm_predictor_matrix = None
    /\ norm_shapley_matrix = None
    /\ double_norm_predictor_matrix = None
    /\ num_examples = Unbound
    /\ num_grid_rows = Unbound
    /\ num_grid_columns = Unbound
    /\ num_pixels = Unbound
    /\ n_components = Unbound
    /\ predictor_singular_value_matrix = None
    /\ eigenvalues = None
    /\ shapley_singular_value_matrix = None
    /\ shapley_expansion_coeff_matrix = None
    /\ predictor_expansion_coeff_matrix = None
    /\ regressed_shapley_matrix = None
    /\ regressed_predictor_matrix = None

----------------------------------------------------------------------------
(* The output store *)

PRINCIPAL_COMPONENT_DIM == "principal_component"
GRID_ROW_DIM == "grid_row"
GRID_COLUMN_DIM == "grid_column"
PIXEL_DIM == "pixel"

SHAPLEY_SINGULAR_VALUE_KEY == "shapley_singular_value"
PREDICTOR_SINGULAR_VALUE_KEY == "predictor_singular_value"
SHAPLEY_EXPANSION_COEFF_KEY == "shapley_expansion_coefficient"
PREDICTOR_EXPANSION_COEFF_KEY == "predictor_expansion_coefficient"
EIGENVALUE_KEY == "eigenvalue"
REGRESSED_SHAPLEY_VALUE_KEY == "regressed_shapley_value"
REGRESSED_PREDICTOR_KEY == "regressed_predictor"

\* an array some other program left in a store
OTHER_KEY == "other"

\* the keys of metadata_dict, in order
CoordNames ==
    <<PRINCIPAL_COMPONENT_DIM, GRID_ROW_DIM, GRID_COLUMN_DIM, PIXEL_DIM>>

\* mutant: the eigenvalues are left out
MainDataKeysWithoutEigenvalue ==
    <<SHAPLEY_SINGULAR_VALUE_KEY, PREDICTOR_SINGULAR_VALUE_KEY,
      SHAPLEY_EXPANSION_COEFF_KEY, PREDICTOR_EXPANSION_COEFF_KEY,
      REGRESSED_SHAPLEY_VALUE_KEY, REGRESSED_PREDICTOR_KEY>>

\* the keys of main_data_dict, in order
MainDataKeys ==
    <<SHAPLEY_SINGULAR_VALUE_KEY, PREDICTOR_SINGULAR_VALUE_KEY,
      SHAPLEY_EXPANSION_COEFF_KEY, PREDICTOR_EXPANSION_COEFF_KEY,
      EIGENVALUE_KEY, REGRESSED_SHAPLEY_VALUE_KEY, REGRESSED_PREDICTOR_KEY>>

Range(seq) == {seq[i] : i \in DOMAIN seq}

StoreArrayNames == Range(CoordNames) \cup Range(MainDataKeys) \cup {OTHER_KEY}

\* an array of a store: who wrote it (0: before any call of the writer; k: the
\* k-th call), its shape and its stored type
StoredArray(writer, shape, dtype) ==
    [writer |-> writer, shape |-> shape, dtype |-> dtype]
NoArray == StoredArray(-1, None, "none")

EmptyDir == [exists |-> TRUE, arrays |-> [n \in StoreArrayNames |-> NoArray]]
NoStore == [exists |-> FALSE, arrays |-> [n \in StoreArrayNames |-> NoArray]]

InitWriter ==
    /\ wpc = "idle"
    /\ wargs = None
    /\ wcalls = <<>>

----------------------------------------------------------------------------
(* _read_covariance_matrix *)

\* mutant: the '.nc' path gives way to the '.zarr' directory whenever that exists
SwapNcToZarrPreferZarr(name) ==
    IF EndsWith(name, NcExt) /\ (~IsFile(name) \/ IsDir(NcToZarr(name)))
    THEN NcToZarr(name) ELSE name

\* lines 82-86: a '.nc' path that is no file becomes the '.zarr' path
SwapNcToZarr(name) ==
    IF EndsWith(name, NcExt) /\ ~IsFile(name) THEN NcToZarr(name) ELSE name

\* lines 88-92: a '.zarr' path that is no directory becomes the '.nc' path
SwapZarrToNc(name) ==
    IF EndsWith(name, ZarrExt) /\ ~IsDir(name) THEN ZarrToNc(name) ELSE name

\* mutant: only the first swap is made
ResolveOneWay(name) == SwapNcToZarr(name)

\* lines 82-92: both swaps, in the order of the code
Resolve(name) == SwapZarrToNc(SwapNcToZarr(name))

Returned(v) == [outcome |-> "returned", value |-> v, error |-> "none"]
ReturnedNone == [outcome |-> "returned_none", value |-> NoMatrix, error |-> "none"]
Raised(e) == [outcome |-> "raised", value |-> NoMatrix, error |-> e]
NoRet == [outcome |-> "none", value |-> NoMatrix, error |-> "none"]

\* xarray.open_zarr(name)[COVARIANCE_KEY].values
\* (a directory without the array, left by a write that failed, cannot be read)
OpenZarr(name) ==
    IF IsDir(name) /\ Lookup(name).data # NoMatrix
    THEN Returned(Lookup(name).data) ELSE Raised("read_error")

\* mutant: a missing file is not noticed
OpenDatasetUnchecked(name) == Returned(Lookup(name).data)

\* xarray.open_dataset(name)[COVARIANCE_KEY].values
OpenDataset(name) ==
    IF IsFile(name) THEN Returned(Lookup(name).data) ELSE Raised("read_error")

\* one finished call, as the log keeps it
CallRecord(path, pre, post, r, migrated) ==
    [path |-> path, pre |-> pre, post |-> post, ret |-> r, migrated |-> migrated]

\* the call ends (returns or raises) without having touched the disk
EndCallUntouched(path, r) ==
    /\ ret' = r
    /\ rpc' = "ended"
    /\ calls' = Append(calls, CallRecord(path, fs, fs, r, FALSE))
    /\ UNCHANGED <<fs, rd_covariance_matrix, netcdf_file_name, zarr_file_name>>

\* lines 82-107: resolve the path, read the matrix; a legacy hit goes on to
\* the migration
ReadBody(path) ==
    LET name == Resolve(path) IN
    /\ covariance_file_name' = name
    /\ IF EndsWith(name, ZarrExt)
       THEN EndCallUntouched(path, OpenZarr(name))
       ELSE IF ~EndsWith(name, NcExt)
       THEN EndCallUntouched(path, ReturnedNone)
       ELSE IF OpenDataset(name).outcome = "raised"
       THEN EndCallUntouched(path, OpenDataset(name))
       ELSE /\ rd_covariance_matrix' = OpenDataset(name).value
            /\ netcdf_file_name' = name
            /\ zarr_file_name' = NcToZarr(name)
            /\ rpc' = "write"
            /\ calls' = Append(calls, CallRecord(path, fs, fs, NoRet, FALSE))
            /\ UNCHANGED <<fs, ret>>

\* get_covar_matrix._write_results: the chunked store holds the matrix
WriteResults(name, matrix) == [fs EXCEPT ![name] = Dir(matrix)]

\* lines 109-112
MigrateWrite ==
    /\ rpc = "write"
    /\ fs' = WriteResults(zarr_file_name, rd_covariance_matrix)
    /\ rpc' = "remove"
    /\ calls' = [calls EXCEPT ![Len(calls)].migrated = TRUE]
    /\ UNCHANGED <<pc, covariance_file_name, rd_covariance_matrix,
                   netcdf_file_name, zarr_file_name, ret>>
    /\ UNCHANGED <<error, loopVars, mcaVars, writerVars>>

\* mutant: the legacy file is left in place
RemoveKeepsFile(name) == fs

\* os.remove
Remove(name) == [fs EXCEPT ![name] = NoEntry]

\* lines 114-116
MigrateRemove ==
    /\ rpc = "remove"
    /\ fs' = Remove(netcdf_file_name)
    /\ ret' = Returned(rd_covariance_matrix)
    /\ rpc' = "ended"
    /\ calls' = [calls EXCEPT ![Len(calls)].post = fs',
                              ![Len(calls)].ret = ret']
    /\ UNCHANGED <<pc, covariance_file_name, rd_covariance_matrix,
                   netcdf_file_name, zarr_file_name>>
    /\ UNCHANGED <<error, loopVars, mcaVars, writerVars>>

\* a caller other than _run (a test, a later run) loads the matrix
HarnessRead ==
    /\ pc = "harness"
    /\ rpc \in {"idle", "ended"}
    /\ Len(calls) < MaxCalls
    /\ \E path \in PathArgs : ReadBody(path)
    /\ UNCHANGED <<pc, error, loopVars, mcaVars, writerVars>>

\* no loader call has been made
InitLoader ==
    /\ rpc = "idle"
    /\ covariance_file_name = NoName
    /\ rd_covariance_matrix = NoMatrix
    /\ netcdf_file_name = NoName
    /\ zarr_file_name = NoName
    /\ ret = NoRet
    /\ calls = <<>>

InitRead ==
    /\ fs \in DiskStates
    /\ pc = "harness"
    /\ error = NoError
    /\ InitLoader
    /\ InitRunLocals
    /\ InitWriter
    /\ store = NoStore

NextRead == HarnessRead \/ MigrateWrite \/ MigrateRemove

SpecRead == InitRead /\ [][NextRead]_vars

----------------------------------------------------------------------------
(* Claims about _read_covariance_matrix, over the log of finished calls *)

Finished(c) == c.ret.outcome # "none"
Recognized(path) == EndsWith(path, NcExt) \/ EndsWith(path, ZarrExt)
HasNc(disk) == disk[NcName].kind = "file"
HasZarr(disk) == disk[ZarrName].kind = "dir"
OnlyLegacy(disk) == HasNc(disk) /\ ~HasZarr(disk)

\* every representation that exists on the disk holds the matrix m
Represents(disk, m) ==
    /\ HasNc(disk) \/ HasZarr(disk)
    /\ HasNc(disk) => disk[NcName].data = m
    /\ HasZarr(disk) => disk[ZarrName].data = m

\* C2: a call whose path ends in neither '.nc' nor '.zarr' raises a format
\* error, returns nothing, and leaves the disk as it was.
C2_FormatErrorForUnrecognizedPath ==
    \A i \in DOMAIN calls :
        (Finished(calls[i]) /\ ~Recognized(calls[i].path)) =>
            /\ calls[i].ret = Raised("format_error")
            /\ calls[i].post = calls[i].pre

\* C3: from a disk holding only the legacy file, two calls in a row with the
\* '.nc' path both return the matrix of that file, and the disk after the
\* second call is the disk after the first: chunked store present with that
\* matrix, legacy file absent.
C3_MigrationIdempotent ==
    \A i \in DOMAIN calls :
        (/\ i + 1 \in DOMAIN calls
         /\ Finished(calls[i + 1])
         /\ calls[i].path = NcName
         /\ calls[i + 1].path = NcName
         /\ OnlyLegacy(calls[i].pre)) =>
            LET m == calls[i].pre[NcName].data IN
            /\ calls[i].ret = Returned(m)
            /\ calls[i + 1].ret = Returned(m)
            /\ calls[i + 1].post = calls[i].post
            /\ calls[i + 1].post[ZarrName] = Dir(m)
            /\ calls[i + 1].post[NcName] = NoEntry

C3_Witness ==
    \E i \in DOMAIN calls :
        /\ i + 1 \in DOMAIN calls
        /\ Finished(calls[i + 1])
        /\ calls[i].path = NcName
        /\ calls[i + 1].path = NcName
        /\ OnlyLegacy(calls[i].pre)
        /\ calls[i].migrated

\* C4: whenever at least one representation of the matrix exists, a call with
\* the '.nc' path and a call with the '.zarr' path both return that matrix: a
\* missing '.nc' file is served from the '.zarr' directory and a missing
\* '.zarr' directory from the '.nc' file.
C4_ExtensionSwapBothDirections ==
    \A i \in DOMAIN calls :
        \A m \in CovMatrices :
            (/\ Finished(calls[i])
             /\ calls[i].path \in {NcName, ZarrName}
             /\ Represents(calls[i].pre, m)) =>
                calls[i].ret = Returned(m)

C4_Witness ==
    /\ \E i \in DOMAIN calls :
        /\ Finished(calls[i])
        /\ calls[i].path = NcName
        /\ ~HasNc(calls[i].pre) /\ HasZarr(calls[i].pre)
        /\ calls[i].ret.outcome = "returned"
    /\ \E i \in DOMAIN calls :
        /\ Finished(calls[i])
        /\ calls[i].path = ZarrName
        /\ HasNc(calls[i].pre) /\ ~HasZarr(calls[i].pre)
        /\ calls[i].ret.outcome = "returned"

\* C5: with neither the '.nc' file nor the '.zarr' directory on the disk, a
\* call with either path raises a read error, runs no migration step and
\* leaves the disk as it was.
C5_ReadErrorWhenNeitherExists ==
    \A i \in DOMAIN calls :
        (/\ calls[i].path \in {NcName, ZarrName}
         /\ ~HasNc(calls[i].pre)
         /\ ~HasZarr(calls[i].pre)) =>
            /\ Finished(calls[i])
            /\ calls[i].ret = Raised("read_error")
            /\ ~calls[i].migrated
            /\ calls[i].post = calls[i].pre

C5_Witness ==
    \E i, j \in DOMAIN calls :
        /\ calls[i].path = NcName
        /\ calls[j].path = ZarrName
        /\ ~HasNc(calls[i].pre) /\ ~HasZarr(calls[i].pre)
        /\ ~HasNc(calls[j].pre) /\ ~HasZarr(calls[j].pre)
        /\ calls[i].ret.outcome = "raised"
        /\ calls[j].ret.outcome = "raised"

\* C6 as stated: whenever a chunked store exists, a load with either path
\* rewrites no chunked store and deletes no legacy file; whenever only the
\* legacy file exists, a successful load ends with the chunked store present
\* and the legacy file absent.
C6_MigrationOnlyWhenLegacyOnly ==
    \A i \in DOMAIN calls :
        (Finished(calls[i]) /\ calls[i].path \in {NcName, ZarrName}) =>
            /\ HasZarr(calls[i].pre) =>
                (~calls[i].migrated /\ calls[i].post = calls[i].pre)
            /\ (OnlyLegacy(calls[i].pre) /\ calls[i].ret.outcome = "returned") =>
                /\ calls[i].post[ZarrName] = Dir(calls[i].pre[NcName].data)
                /\ calls[i].post[NcName] = NoEntry

\* the load reads the legacy file: the '.nc' path whose file exists, or the
\* '.zarr' path whose directory is missing while the '.nc' file exists
ReadsLegacy(path, disk) ==
    HasNc(disk) /\ (path = NcName \/ (path = ZarrName /\ ~HasZarr(disk)))

\* C6 as amended: the migration runs exactly when the load reads the legacy
\* file, which includes the '.nc' path while both representations exist (the
\* chunked store is then rewritten from the legacy file and the legacy file
\* deleted); every other load leaves the disk as it was.
C6_MigrationExactlyOnLegacyRead ==
    \A i \in DOMAIN calls :
        (Finished(calls[i]) /\ calls[i].path \in {NcName, ZarrName}) =>
            IF ReadsLegacy(calls[i].path, calls[i].pre)
            THEN /\ calls[i].migrated
                 /\ calls[i].ret = Returned(calls[i].pre[NcName].data)
                 /\ calls[i].post[ZarrName] = Dir(calls[i].pre[NcName].data)
                 /\ calls[i].post[NcName] = NoEntry
            ELSE /\ ~calls[i].migrated
                 /\ calls[i].post = calls[i].pre

C6_Witness ==
    \E i \in DOMAIN calls :
        /\ Finished(calls[i])
        /\ calls[i].path = NcName
        /\ HasNc(calls[i].pre) /\ HasZarr(calls[i].pre)
        /\ calls[i].migrated
        /\ ~HasNc(calls[i].post)

----------------------------------------------------------------------------
(* _write_mca_results *)

\* number of writer calls the harness makes in a row
MaxWriteCalls == 2

\* the seven arrays _run passes (as shapes) for K modes on an R-by-C grid
WriterArgs(k, r, c) ==
    [shapley_singular_value_matrix |-> <<r * c, k>>,
     predictor_singular_value_matrix |-> <<r * c, k>>,
     shapley_expansion_coeff_matrix |-> <<k, k>>,
     predictor_expansion_coeff_matrix |-> <<k, k>>,
     eigenvalues |-> <<k>>,
     regressed_shapley_matrix |-> <<k, r, c>>,
     regressed_predictor_matrix |-> <<k, r, c>>]

\* what a caller other than _run may pass: matching arrays, and a set whose
\* eigenvalue vector is one too long
WriterArgSamples ==
    {WriterArgs(1, 1, 1), WriterArgs(2, 1, 2),
     [WriterArgs(2, 1, 2) EXCEPT !.eigenvalues = <<3>>]}

\* lines 154-175: the sizes of the four axes (metadata_dict)
DimSize(args) ==
    [d \in Range(CoordNames) |->
        IF d = PRINCIPAL_COMPONENT_DIM
        THEN args.shapley_singular_value_matrix[2]
        ELSE IF d = GRID_ROW_DIM THEN args.regressed_shapley_matrix[2]
        ELSE IF d = GRID_COLUMN_DIM THEN args.regressed_shapley_matrix[3]
        ELSE args.regressed_shapley_matrix[2] * args.regressed_shapley_matrix[3]]

\* lines 177-206: main_data_dict, key -> (dimensions, array)
MainDataDict(args) ==
    [key \in Range(MainDataKeys) |->
        IF key = SHAPLEY_SINGULAR_VALUE_KEY
        THEN [dims |-> <<PIXEL_DIM, PRINCIPAL_COMPONENT_DIM>>,
              shape |-> args.shapley_singular_value_matrix]
        ELSE IF key = PREDICTOR_SINGULAR_VALUE_KEY
        THEN [dims |-> <<PIXEL_DIM, PRINCIPAL_COMPONENT_DIM>>,
              shape |-> args.predictor_singular_value_matrix]
        ELSE IF key = SHAPLEY_EXPANSION_COEFF_KEY
        THEN [dims |-> <<PRINCIPAL_COMPONENT_DIM, PRINCIPAL_COMPONENT_DIM>>,
              shape |-> args.shapley_expansion_coeff_matrix]
        ELSE IF key = PREDICTOR_EXPANSION_COEFF_KEY
        THEN [dims |-> <<PRINCIPAL_COMPONENT_DIM, PRINCIPAL_COMPONENT_DIM>>,
              shape |-> args.predictor_expansion_coeff_matrix]
        ELSE IF key = EIGENVALUE_KEY
        THEN [dims |-> <<PRINCIPAL_COMPONENT_DIM>>,
              shape |-> args.eigenvalues]
        ELSE IF key = REGRESSED_SHAPLEY_VALUE_KEY
        THEN [dims |-> <<PRINCIPAL_COMPONENT_DIM, GRID_ROW_DIM, GRID_COLUMN_DIM>>,
              shape |-> args.regressed_shapley_matrix]
        ELSE [dims |-> <<PRINCIPAL_COMPONENT_DIM, GRID_ROW_DIM, GRID_COLUMN_DIM>>,
              shape |-> args.regressed_predictor_matrix]]

\* lines 208-210: xarray.Dataset accepts the arrays only if every array has
\* the sizes of its dimensions
DatasetOk(args) ==
    \A key \in Range(MainDataKeys) :
        LET v == MainDataDict(args)[key] IN
        v.shape = [i \in DOMAIN v.dims |-> DimSize(args)[v.dims[i]]]

\* the arrays of the data set in the order they are written: the four
\* coordinates, then the data variables
DatasetOrder == CoordNames \o MainDataKeys

\* lines 212-220: encoding_dict stores every data variable as float32; the
\* coordinates keep the integer type of numpy.linspace(..., dtype=int)
DatasetArray(args, name, call) ==
    IF name \in Range(CoordNames)
    THEN StoredArray(call, <<DimSize(args)[name]>>, "int64")
    ELSE StoredArray(call, MainDataDict(args)[name].shape, "float32")

\* lines 221-223: to_zarr(mode='w') has written the first n arrays of the data
\* set into a store it emptied first; n = Len(DatasetOrder) is the whole set
ToZarr(args, call, n) ==
    [exists |-> TRUE,
     arrays |-> [name \in StoreArrayNames |->
        IF \E i \in 1..n : DatasetOrder[i] = name
        THEN DatasetArray(args, name, call)
        ELSE NoArray]]

\* shutil.rmtree
Rmtree(st) == NoStore

\* file_system_utils.mkdir_recursive_if_necessary
MkdirRecursiveIfNecessary(st) == IF st.exists THEN st ELSE EmptyDir

WriterCall(pre) == [pre |-> pre, post |-> pre, outcome |-> "none", line |-> 0]

EndWriterCall(outcome, line) ==
    /\ wpc' = "ended"
    /\ wcalls' = [wcalls EXCEPT ![Len(wcalls)].post = store',
                                ![Len(wcalls)].outcome = outcome,
                                ![Len(wcalls)].line = line]

\* lines 146-148: the old store, if any, is removed
WriteBody(args) ==
    /\ wargs' = args
    /\ store' = IF store.exists THEN Rmtree(store) ELSE store
    /\ wpc' = "mkdir"
    /\ wcalls' = Append(wcalls, WriterCall(store))

\* lines 150-152
WriteMkdir ==
    /\ wpc = "mkdir"
    /\ store' = MkdirRecursiveIfNecessary(store)
    /\ wpc' = "dataset"
    /\ UNCHANGED <<fs, pc, error, loaderVars, loopVars, mcaVars, wargs, wcalls>>

\* lines 154-223: build the data set and write it
WriteToZarr ==
    /\ wpc = "dataset"
    /\ IF DatasetOk(wargs)
       THEN /\ store' = ToZarr(wargs, Len(wcalls), Len(DatasetOrder))
            /\ EndWriterCall("returned", 223)
       ELSE /\ store' = store
            /\ EndWriterCall("raised", 208)
    /\ UNCHANGED <<fs, pc, error, loaderVars, loopVars, mcaVars, wargs>>

\* a caller other than _run writes results
HarnessWrite ==
    /\ pc = "harness"
    /\ wpc \in {"idle", "ended"}
    /\ Len(wcalls) < MaxWriteCalls
    /\ \E args \in WriterArgSamples : WriteBody(args)
    /\ UNCHANGED <<fs, pc, error, loaderVars, loopVars, mcaVars>>

(* Failures of the file system under the writer *)

\* the store with the first n of its arrays (in the order of names) deleted
PartlyRemoved(st, n) ==
    LET order == DatasetOrder \o <<OTHER_KEY>> IN
    [st EXCEPT !.arrays = [name \in StoreArrayNames |->
        IF \E i \in 1..n : order[i] = name THEN NoArray ELSE st.arrays[name]]]

\* line 148: shutil.rmtree raises after deleting part of the old store
HarnessWriteRmtreeFails ==
    /\ pc = "harness"
    /\ wpc \in {"idle", "ended"}
    /\ Len(wcalls) < MaxWriteCalls
    /\ store.exists
    /\ \E args \in WriterArgSamples, n \in 0..Len(DatasetOrder) :
        /\ wargs' = args
        /\ store' = PartlyRemoved(store, n)
        /\ wpc' = "ended"
        /\ wcalls' = Append(wcalls,
              [pre |-> store, post |-> store', outcome |-> "raised", line |-> 148])
    /\ UNCHANGED <<fs, pc, error, loaderVars, loopVars, mcaVars>>

\* line 150: the directory cannot be made
WriteMkdirFails ==
    /\ wpc = "mkdir"
    /\ store' = store
    /\ EndWriterCall("raised", 150)
    /\ UNCHANGED <<fs, pc, error, loaderVars, loopVars, mcaVars, wargs>>

\* line 221: to_zarr raises after writing part of the data set
WriteToZarrFails ==
    /\ wpc = "dataset"
    /\ DatasetOk(wargs)
    /\ \E n \in 0..(Len(DatasetOrder) - 1) :
        /\ store' = ToZarr(wargs, Len(wcalls), n)
        /\ EndWriterCall("raised", 221)
    /\ UNCHANGED <<fs, pc, error, loaderVars, loopVars, mcaVars, wargs>>

\* a store written before any call of the model: complete, or with one more
\* array, or missing
OldStore(args, with_other) ==
    [exists |-> TRUE,
     arrays |-> [name \in StoreArrayNames |->
        IF name = OTHER_KEY
        THEN IF with_other THEN StoredArray(0, <<1>>, "float32") ELSE NoArray
        ELSE DatasetArray(args, name, 0)]]

InitialStores ==
    {NoStore, OldStore(WriterArgs(1, 1, 1), FALSE), OldStore(WriterArgs(2, 1, 2), TRUE)}

EmptyDisk == [n \in FsNames |-> NoEntry]

InitWrite ==
    /\ fs = EmptyDisk
    /\ pc = "harness"
    /\ error = NoError
    /\ InitLoader
    /\ InitRunLocals
    /\ InitWriter
    /\ store \in InitialStores

NextWrite ==
    \/ HarnessWrite
    \/ HarnessWriteRmtreeFails
    \/ WriteMkdir
    \/ WriteMkdirFails
    \/ WriteToZarr
    \/ WriteToZarrFails

SpecWrite == InitWrite /\ [][NextWrite]_vars

----------------------------------------------------------------------------
(* Claims about _write_mca_results, over the log of writer calls *)

SevenFields ==
    {"shapley_singular_value", "predictor_singular_value",
     "shapley_expansion_coefficient", "predictor_expansion_coefficient",
     "eigenvalue", "regressed_shapley_value", "regressed_predictor"}

FourAxes == {"principal_component", "grid_row", "grid_column", "pixel"}

\* the store holds the seven fields of call i, all of them whole, and no
\* other field
CompleteNew(st, i) ==
    /\ st.exists
    /\ \A name \in SevenFields \cup FourAxes :
        name \in DOMAIN st.arrays /\ st.arrays[name].writer = i
    /\ \A name \in DOMAIN st.arrays \ (SevenFields \cup FourAxes) :
        st.arrays[name] = NoArray

\* the store holds an array of call i beside an array that call did not write
Mixture(st, i) ==
    \E a, b \in StoreArrayNames :
        /\ st.arrays[a].writer = i
        /\ st.arrays[b].writer \notin {-1, i}

\* C10 as stated: after every call that found a store at the output path,
\* whether it returned or raised, the store is the complete old store or the
\* complete new one.
C10_AtomicOverwrite ==
    \A i \in DOMAIN wcalls :
        (wcalls[i].outcome # "none" /\ wcalls[i].pre.exists) =>
            \/ wcalls[i].post = wcalls[i].pre
            \/ CompleteNew(wcalls[i].post, i)

\* C10 as amended: a call that returns leaves the complete new store with
\* exactly the seven fields of this call; a call that raises may leave the
\* old store (whole or partly deleted), no store, an empty directory or a
\* partly written new store, but never old and new fields together.
C10_RemoveThenRecreate ==
    \A i \in DOMAIN wcalls :
        /\ wcalls[i].outcome = "returned" => CompleteNew(wcalls[i].post, i)
        /\ wcalls[i].outcome # "none" => ~Mixture(wcalls[i].post, i)
        /\ (wcalls[i].outcome = "raised" /\ wcalls[i].line > 148) =>
              \A name \in StoreArrayNames :
                  wcalls[i].post.arrays[name].writer \in {-1, i}

C10_Witness ==
    \E i \in DOMAIN wcalls :
        /\ wcalls[i].pre.exists
        /\ wcalls[i].pre.arrays["other"].writer = 0
        /\ wcalls[i].outcome = "raised"
        /\ wcalls[i].post.exists
        /\ wcalls[i].post.arrays["pixel"].writer = i
        /\ wcalls[i].post.arrays["eigenvalue"] = NoArray
        /\ \E j \in DOMAIN wcalls :
            /\ wcalls[j].pre.exists
            /\ wcalls[j].outcome = "returned"

----------------------------------------------------------------------------
(* _run: what saliency.read_file returns *)

\* number of Shapley files in the input list
MaxFiles == 2

\* number of examples in one Shapley file
MaxExamples == 2

LAG_TIME_INDEX == -1
CHANNEL_INDEX == 0

\* a Python index into an axis of length n, as a position from 1
PyIndex(i, n) == IF i < 0 THEN n + i + 1 ELSE i + 1

\* values the input-times-gradient and the saliency fields take
GradPalette == <<Fin(2), Fin(0), Fin(-1), NaN>>
SalPalette == <<Fin(1), Fin(0), Fin(2)>>

\* the original grids (rows, columns) of the files
GridShapes == {<<20, 20>>, <<1, 401>>, <<2, 4>>, <<1, 2>>, <<3, 3>>}

FillPatterns == {[grad_seed |-> 0, sal_seed |-> 0], [grad_seed |-> 1, sal_seed |-> 2]}

\* a file: the sizes of its two fields [example, row, column, lag_time,
\* channel] and the pattern that fills them
SaliencyFile(e, shape, pattern) ==
    [num_examples |-> e, num_rows |-> shape[1], num_columns |-> shape[2],
     num_lag_times |-> 2, num_channels |-> 3,
     grad_seed |-> pattern.grad_seed, sal_seed |-> pattern.sal_seed]

SaliencyFiles ==
    {SaliencyFile(e, shape, pattern) :
        e \in 1..MaxExamples, shape \in GridShapes, pattern \in FillPatterns}

\* this_saliency_dict[THREE_INPUT_GRAD_KEY][0][e, r, c, l, ch]
InputGradValue(f, e, r, c, l, ch) ==
    GradPalette[((f.grad_seed + e + r + c + l + ch) % Len(GradPalette)) + 1]

\* this_saliency_dict[THREE_SALIENCY_KEY][0][e, r, c, l, ch]
SaliencyValue(f, e, r, c, l, ch) ==
    SalPalette[((f.sal_seed + e + r + c + l + ch) % Len(SalPalette)) + 1]

\* lines 249-251: [..., LAG_TIME_INDEX, CHANNEL_INDEX] of the gradient field
DummyInputGradMatrix(f) ==
    [e \in 1..f.num_examples |-> [r \in 1..f.num_rows |-> [c \in 1..f.num_columns |->
        InputGradValue(f, e, r, c, PyIndex(LAG_TIME_INDEX, f.num_lag_times),
                       PyIndex(CHANNEL_INDEX, f.num_channels))]]]

\* lines 253-255: the same slice of the saliency field
DummySaliencyMatrix(f) ==
    [e \in 1..f.num_examples |-> [r \in 1..f.num_rows |-> [c \in 1..f.num_columns |->
        SaliencyValue(f, e, r, c, PyIndex(LAG_TIME_INDEX, f.num_lag_times),
                      PyIndex(CHANNEL_INDEX, f.num_channels))]]]

\* numpy shape of an example-by-row-by-column array
Shape(a) == <<Len(a), Len(a[1]), Len(a[1][1])>>

----------------------------------------------------------------------------
(* _run: the coarsening factor *)

\* the least k >= from with sqrt(n / c) <= k + 1/2
RECURSIVE LeastAbove(_, _, _)
LeastAbove(n, c, from) ==
    IF 4 * n <= (2 * from + 1) * (2 * from + 1) * c
    THEN from
    ELSE LeastAbove(n, c, from + 1)

\* lines 262-267: int(numpy.round(sqrt(n / c))); numpy.round sends a root
\* that lies halfway between two integers to the even one
NearestIntegerToRoot(n, c) ==
    LET k == LeastAbove(n, c, 0)
        halfway == 4 * n = (2 * k + 1) * (2 * k + 1) * c
    IN IF halfway /\ k % 2 = 1 THEN k + 1 ELSE k

\* mutant: the factor must be the exact root
IsExactRoot(f, n, c) == f * f * c = n

\* lines 269-272: numpy.isclose(f, sqrt(n / c), rtol=0.01), that is
\* |f - sqrt(n/c)| <= atol + sqrt(n/c) / 100, squared to stay in the integers.
\* numpy's default atol of 1e-8 changes the outcome only if an integer lies
\* within 2e-4 * f * c of the bound, which needs f * c >= 5000.
IsClose(f, n, c) ==
    IF f * f * c <= n
    THEN 99 * 99 * n <= 100 * 100 * f * f * c
    ELSE 100 * 100 * f * f * c <= 101 * 101 * n

\* length of range(0, n, f)
StridedLength(n, f) == (n + f - 1) \div f

\* lines 274-279: matrix[:, ::f, ::f]
Coarsen(a, f) ==
    [e \in 1..Len(a) |->
        [i \in 1..StridedLength(Len(a[1]), f) |->
            [j \in 1..StridedLength(Len(a[1][1]), f) |->
                a[e][1 + (i - 1) * f][1 + (j - 1) * f]]]]

\* lines 281-286: numpy.divide, then the non-finite elements are zeroed
PredictorMatrix(grad, sal) ==
    [e \in 1..Len(grad) |-> [i \in 1..Len(grad[1]) |-> [j \in 1..Len(grad[1][1]) |->
        Mask(Divide(grad[e][i][j], sal[e][i][j]))]]]

\* mutant: the new examples go in front
ConcatenateInFront(a, b) == b \o a

\* numpy.concatenate((a, b), axis=0) of arrays with equal rows and columns
Concatenate(a, b) == a \o b

\* numpy.concatenate accepts arrays that agree in every axis but the first
CanConcatenate(a, b) == Shape(a)[2] = Shape(b)[2] /\ Shape(a)[3] = Shape(b)[3]

----------------------------------------------------------------------------
(* _run *)

\* mutant: the exception is recorded and the stage is run again
AbortResumes(kind, line, orig) ==
    /\ pc' = pc
    /\ error' = RunError(kind, line, orig, num_covariance_pixels, num_examples)
    /\ UNCHANGED <<loopVars, mcaVars>>

\* an exception leaves _run: its locals are gone
Abort(kind, line, orig) ==
    /\ pc' = "aborted"
    /\ error' = RunError(kind, line, orig, num_covariance_pixels, num_examples)
    /\ covariance_matrix' = NoMatrix
    /\ num_covariance_pixels' = Unbound
    /\ files_read' = <<>>
    /\ spatial_coarsening_factor' = Unbound
    /\ shapley_matrix' = None
    /\ norm_predictor_matrix' = None
    /\ norm_shapley_matrix' = None
    /\ double_norm_predictor_matrix' = None
    /\ num_examples' = Unbound
    /\ num_grid_rows' = Unbound
    /\ num_grid_columns' = Unbound
    /\ num_pixels' = Unbound
    /\ n_components' = Unbound
    /\ predictor_singular_value_matrix' = None
    /\ eigenvalues' = None
    /\ shapley_singular_value_matrix' = None
    /\ shapley_expansion_coeff_matrix' = None
    /\ predictor_expansion_coeff_matrix' = None
    /\ regressed_shapley_matrix' = None
    /\ regressed_predictor_matrix' = None

\* the covariance paths _run is started with
RunPaths == {NcName, ZarrName, <<"c", ".", "t", "x", "t">>}

\* lines 236-237: _run calls the loader
RunStart ==
    /\ pc = "start"
    /\ rpc = "idle"
    /\ \E path \in RunPaths : ReadBody(path)
    /\ pc' = "read"
    /\ UNCHANGED <<error, loopVars, mcaVars, writerVars>>

\* lines 237-238: the loader's exception ends the run; so does None, which has
\* no shape
RunAfterRead ==
    /\ pc = "read"
    /\ rpc = "ended"
    /\ IF ret.outcome = "raised"
       THEN Abort(ret.error, 237, Unbound)
       ELSE IF ret.outcome = "returned_none"
       THEN Abort("AttributeError", 238, Unbound)
       ELSE /\ covariance_matrix' = ret.value
            /\ num_covariance_pixels' = ret.value.pixels
            /\ pc' = "loop"
            /\ UNCHANGED <<error, files_read, spatial_coarsening_factor,
                           shapley_matrix, norm_predictor_matrix, mcaVars>>
    /\ UNCHANGED <<fs, loaderVars, writerVars>>

\* lines 257-272: the factor is inferred from the first file and kept
CoarseningFactor(f) ==
    IF spatial_coarsening_factor = Unbound
    THEN NearestIntegerToRoot(f.num_rows * f.num_columns, num_covariance_pixels)
    ELSE spatial_coarsening_factor

\* lines 274-299: both fields are coarsened, the predictor field derived and
\* the examples appended to the running matrices
Accumulate(f, factor, this_dummy_input_grad_matrix, this_dummy_saliency_matrix) ==
    LET this_predictor_matrix ==
            PredictorMatrix(this_dummy_input_grad_matrix, this_dummy_saliency_matrix)
        this_shapley_matrix == this_dummy_input_grad_matrix
    IN
    IF shapley_matrix # None /\ ~CanConcatenate(shapley_matrix, this_shapley_matrix)
    THEN Abort("ValueError", 294, f.num_rows * f.num_columns)
    ELSE /\ spatial_coarsening_factor' = factor
         /\ files_read' = Append(files_read, f)
         /\ shapley_matrix' =
                IF shapley_matrix = None THEN this_shapley_matrix
                ELSE Concatenate(shapley_matrix, this_shapley_matrix)
         /\ norm_predictor_matrix' =
                IF shapley_matrix = None THEN this_predictor_matrix
                ELSE Concatenate(norm_predictor_matrix, this_predictor_matrix)
         /\ UNCHANGED <<pc, error, covariance_matrix, num_covariance_pixels,
                        mcaVars>>

\* lines 245-299: one pass of the loop over shapley_file_names
ReadShapleyFile ==
    /\ pc = "loop"
    /\ Len(files_read) < MaxFiles
    /\ \E f \in SaliencyFiles :
        \E factor \in {CoarseningFactor(f)} :
            IF /\ spatial_coarsening_factor = Unbound
               /\ ~IsClose(factor, f.num_rows * f.num_columns, num_covariance_pixels)
            THEN Abort("AssertionError", 269, f.num_rows * f.num_columns)
            ELSE \E grad \in {Coarsen(DummyInputGradMatrix(f), factor)},
                    sal \in {Coarsen(DummySaliencyMatrix(f), factor)} :
                    Accumulate(f, factor, grad, sal)
    /\ UNCHANGED <<fs, loaderVars, writerVars>>

\* lines 301-315: the list is exhausted; both matrices are standardized with
\* one mean and one standard deviation each, and the raw ones deleted
\* (the list holds at least one file: line 59, nargs='+')
Standardize ==
    /\ pc = "loop"
    /\ Len(files_read) >= 1
    /\ norm_shapley_matrix' = Shape(shapley_matrix)
    /\ shapley_matrix' = None
    /\ double_norm_predictor_matrix' = Shape(norm_predictor_matrix)
    /\ norm_predictor_matrix' = None
    /\ pc' = "reshape"
    /\ UNCHANGED <<fs, error, loaderVars, writerVars, covariance_matrix,
                   num_covariance_pixels, files_read, spatial_coarsening_factor,
                   num_examples, num_grid_rows, num_grid_columns, num_pixels,
                   n_components, predictor_singular_value_matrix, eigenvalues,
                   shapley_singular_value_matrix, shapley_expansion_coeff_matrix,
                   predictor_expansion_coeff_matrix, regressed_shapley_matrix,
                   regressed_predictor_matrix>>

\* lines 317-326
Reshape ==
    /\ pc = "reshape"
    /\ num_examples' = norm_shapley_matrix[1]
    /\ num_grid_rows' = norm_shapley_matrix[2]
    /\ num_grid_columns' = norm_shapley_matrix[3]
    /\ num_pixels' = num_grid_rows' * num_grid_columns'
    /\ norm_shapley_matrix' = <<num_examples', num_pixels'>>
    /\ double_norm_predictor_matrix' = <<num_examples', num_pixels'>>
    /\ pc' = "pca"
    /\ UNCHANGED <<fs, error, loaderVars, loopVars, writerVars,
                   n_components, predictor_singular_value_matrix, eigenvalues,
                   shapley_singular_value_matrix, shapley_expansion_coeff_matrix,
                   predictor_expansion_coeff_matrix, regressed_shapley_matrix,
                   regressed_predictor_matrix>>

Min(a, b) == IF a < b THEN a ELSE b

\* mutant: no more components than the matrix has features
NumComponentsCapped(examples) == Min(examples, num_covariance_pixels)

\* line 329: IncrementalPCA(n_components=num_examples)
NumComponents(examples) == examples

\* line 330: IncrementalPCA.fit accepts a P-by-P matrix only if
\* 1 <= n_components <= P (P is the number of features and of samples)
PcaFitOk(components, pixels) == 1 <= components /\ components <= pixels

\* lines 328-333
RunPca ==
    /\ pc = "pca"
    /\ IF PcaFitOk(NumComponents(num_examples), num_covariance_pixels)
       THEN /\ n_components' = NumComponents(num_examples)
            \* transpose of components_, which is n_components by P
            /\ predictor_singular_value_matrix' = <<num_covariance_pixels, n_components'>>
            \* singular_values_ ** 2
            /\ eigenvalues' = <<n_components'>>
            /\ pc' = "left"
            /\ UNCHANGED <<error, loopVars, norm_shapley_matrix,
                           double_norm_predictor_matrix, num_examples, num_grid_rows,
                           num_grid_columns, num_pixels, shapley_singular_value_matrix,
                           shapley_expansion_coeff_matrix,
                           predictor_expansion_coeff_matrix, regressed_shapley_matrix,
                           regressed_predictor_matrix>>
       ELSE Abort("ValueError", 330, Unbound)
    /\ UNCHANGED <<fs, loaderVars, writerVars>>

\* numpy.dot of two matrices, as shapes
DotOk(a, b) == a[2] = b[1]
Dot(a, b) == <<a[1], b[2]>>

\* lines 335-342
LeftSingularVectors ==
    /\ pc = "left"
    /\ LET first_matrix == Dot(<<num_covariance_pixels, num_covariance_pixels>>,
                               predictor_singular_value_matrix)
           second_matrix == <<eigenvalues[1], eigenvalues[1]>>
       IN shapley_singular_value_matrix' = Dot(first_matrix, second_matrix)
    /\ covariance_matrix' = NoMatrix
    /\ pc' = "coefficients"
    /\ UNCHANGED <<fs, error, loaderVars, writerVars, num_covariance_pixels,
                   files_read, spatial_coarsening_factor, shapley_matrix,
                   norm_predictor_matrix, norm_shapley_matrix,
                   double_norm_predictor_matrix, num_examples, num_grid_rows,
                   num_grid_columns, num_pixels, n_components,
                   predictor_singular_value_matrix, eigenvalues,
                   shapley_expansion_coeff_matrix, predictor_expansion_coeff_matrix,
                   regressed_shapley_matrix, regressed_predictor_matrix>>

\* line 339: numpy.linalg.inv raises for a zero eigenvalue (the eigenvalues
\* themselves are not modelled, so this may happen for any matrix)
LeftSingularVectorsSingular ==
    /\ pc = "left"
    /\ Abort("LinAlgError", 339, Unbound)
    /\ UNCHANGED <<fs, loaderVars, writerVars>>

\* lines 344-371: the expansion coefficients, then each column standardized
ExpansionCoefficients ==
    /\ pc = "coefficients"
    /\ IF DotOk(norm_shapley_matrix, shapley_singular_value_matrix)
       THEN /\ shapley_expansion_coeff_matrix' =
                   Dot(norm_shapley_matrix, shapley_singular_value_matrix)
            /\ predictor_expansion_coeff_matrix' =
                   Dot(double_norm_predictor_matrix, predictor_singular_value_matrix)
            /\ pc' = "regress"
            /\ UNCHANGED <<error, loopVars, norm_shapley_matrix,
                           double_norm_predictor_matrix, num_examples, num_grid_rows,
                           num_grid_columns, num_pixels, n_components,
                           predictor_singular_value_matrix, eigenvalues,
                           shapley_singular_value_matrix, regressed_shapley_matrix,
                           regressed_predictor_matrix>>
       ELSE Abort("ValueError", 345, Unbound)
    /\ UNCHANGED <<fs, loaderVars, writerVars>>

\* lines 373-406: one regression per example index, for both fields, and the
\* reshape to the grid
Regress ==
    /\ pc = "regress"
    /\ regressed_shapley_matrix' = <<num_examples, num_grid_rows, num_grid_columns>>
    /\ regressed_predictor_matrix' = <<num_examples, num_grid_rows, num_grid_columns>>
    /\ pc' = "write"
    /\ UNCHANGED <<fs, error, loaderVars, loopVars, writerVars,
                   norm_shapley_matrix, double_norm_predictor_matrix, num_examples,
                   num_grid_rows, num_grid_columns, num_pixels, n_components,
                   predictor_singular_value_matrix, eigenvalues,
                   shapley_singular_value_matrix, shapley_expansion_coeff_matrix,
                   predictor_expansion_coeff_matrix>>

\* lines 408-418: _run calls the writer
RunWrite ==
    /\ pc = "write"
    /\ wpc = "idle"
    /\ WriteBody(
          [shapley_singular_value_matrix |-> shapley_singular_value_matrix,
           predictor_singular_value_matrix |-> predictor_singular_value_matrix,
           shapley_expansion_coeff_matrix |-> shapley_expansion_coeff_matrix,
           predictor_expansion_coeff_matrix |-> predictor_expansion_coeff_matrix,
           eigenvalues |-> eigenvalues,
           regressed_shapley_matrix |-> regressed_shapley_matrix,
           regressed_predictor_matrix |-> regressed_predictor_matrix])
    /\ UNCHANGED <<fs, pc, error, loaderVars, loopVars, mcaVars>>

\* line 418: the writer is back and _run ends
RunReturn ==
    /\ pc = "write"
    /\ wpc = "ended"
    /\ IF wcalls[Len(wcalls)].outcome = "returned"
       THEN /\ pc' = "done"
            /\ UNCHANGED <<error, loopVars, mcaVars>>
       ELSE Abort("ValueError", wcalls[Len(wcalls)].line, Unbound)
    /\ UNCHANGED <<fs, loaderVars, writerVars>>

\* the disks _run is started on: the legacy file only, the chunked store
\* only, or neither
RunDisks ==
    {[n \in FsNames |-> IF n = NcName THEN File(CovMatrix(100, "a")) ELSE NoEntry],
     [n \in FsNames |-> IF n = ZarrName THEN Dir(CovMatrix(2, "b")) ELSE NoEntry],
     EmptyDisk}

InitRun ==
    /\ fs \in RunDisks
    /\ pc = "start"
    /\ error = NoError
    /\ InitLoader
    /\ InitRunLocals
    /\ InitWriter
    /\ store \in {NoStore, OldStore(WriterArgs(1, 1, 1), TRUE)}

NextRun ==
    \/ RunStart
    \/ MigrateWrite
    \/ MigrateRemove
    \/ RunAfterRead
    \/ ReadShapleyFile
    \/ Standardize
    \/ Reshape
    \/ RunPca
    \/ LeftSingularVectors
    \/ LeftSingularVectorsSingular
    \/ ExpansionCoefficients
    \/ Regress
    \/ RunWrite
    \/ WriteMkdir
    \/ WriteToZarr
    \/ RunReturn

SpecRun == InitRun /\ [][NextRun]_vars

----------------------------------------------------------------------------
(* Claims about _run *)

\* examples in the first k files read
RECURSIVE ExamplesIn(_, _)
ExamplesIn(files, k) ==
    IF k = 0 THEN 0 ELSE files[k].num_examples + ExamplesIn(files, k - 1)

TotalExamples == ExamplesIn(files_read, Len(files_read))

\* pixels of the original grid of the first file
FirstFilePixels == files_read[1].num_rows * files_read[1].num_columns

\* the original row or column a coarsened one was taken from
Original(i) == 1 + (i - 1) * spatial_coarsening_factor

\* the gradient and the saliency value of example j of file f at a coarsened
\* pixel: last lag time, first channel
GradAt(f, j, r, c) ==
    InputGradValue(f, j, Original(r), Original(c), f.num_lag_times, 1)
SaliencyAt(f, j, r, c) ==
    SaliencyValue(f, j, Original(r), Original(c), f.num_lag_times, 1)

\* (file, example in the file, example in the running matrices), for every
\* example read so far
ExamplesRead ==
    {<<i, j, ExamplesIn(files_read, i - 1) + j>> :
        i \in DOMAIN files_read, j \in 1..MaxExamples} \cap
    {t \in (DOMAIN files_read) \X (1..MaxExamples) \X (1..(MaxFiles * MaxExamples)) :
        t[2] <= files_read[t[1]].num_examples}

InLoop == pc = "loop" /\ files_read # <<>>

\* C1 as stated: with 400 original and 100 covariance pixels the factor is 2
\* and the run goes on; with 401 and 100 the run is aborted at the check.
C1_FactorTwoOr401Aborts ==
    /\ (files_read # <<>> /\ num_covariance_pixels = 100 /\ FirstFilePixels = 400)
          => spatial_coarsening_factor = 2
    /\ ~(/\ error.kind = "AssertionError"
         /\ error.num_covariance_pixels = 100
         /\ error.num_orig_pixels = 400)
    /\ ~(files_read # <<>> /\ num_covariance_pixels = 100 /\ FirstFilePixels = 401)

\* C1 as amended: 400 against 100 gives the factor 2; so does 401 against
\* 100, whose root 2.0025 lies within 1% of 2, and the run goes on past the
\* check (it ends later, at line 345, on the 201 coarsened pixels); a root
\* farther than 1% from its nearest integer, as for 9 against 2, aborts.
C1_FactorWithinOnePercent ==
    /\ (files_read # <<>> /\ num_covariance_pixels = 100 /\ FirstFilePixels \in {400, 401})
          => spatial_coarsening_factor = 2
    /\ ~(/\ error.kind = "AssertionError"
         /\ error.num_covariance_pixels = 100
         /\ error.num_orig_pixels \in {400, 401})
    /\ ~(files_read # <<>> /\ num_covariance_pixels = 2 /\ FirstFilePixels = 9)
    /\ (files_read # <<>> /\ num_covariance_pixels = 100 /\ FirstFilePixels = 401)
          => pc \notin {"regress", "write", "done"}

C1_Witness ==
    /\ InLoop
    /\ num_covariance_pixels = 100
    /\ FirstFilePixels = 401
    /\ spatial_coarsening_factor = 2
    /\ Shape(shapley_matrix)[3] = 201

\* the fraction p equals g / s, for finite g and finite s # 0
IsQuotient(p, g, s) ==
    /\ p.kind = "finite"
    /\ p.num * s.num * g.den = g.num * s.den * p.den

\* C7 as stated: where the saliency is zero the predictor entry is 0
\* whatever the gradient; every other entry is the quotient gradient /
\* saliency (for a gradient that is not a number, not a number); no error.
C7_ZeroSaliencyMasked ==
    InLoop =>
        /\ error = NoError
        /\ \A t \in ExamplesRead :
            \A r \in DOMAIN norm_predictor_matrix[t[3]] :
                \A c \in DOMAIN norm_predictor_matrix[t[3]][r] :
                    LET g == GradAt(files_read[t[1]], t[2], r, c)
                        s == SaliencyAt(files_read[t[1]], t[2], r, c)
                        p == norm_predictor_matrix[t[3]][r][c]
                    IN IF s.kind = "finite" /\ s.num = 0 THEN p = Fin(0)
                       ELSE IF g.kind = "finite" /\ s.kind = "finite"
                       THEN IsQuotient(p, g, s)
                       ELSE p.kind = "nan"

\* C7 as amended: every entry whose quotient gradient / saliency is not
\* finite (saliency zero, or a gradient or saliency that is itself not
\* finite) is 0; every other entry is the quotient; no error.
C7_NonFiniteQuotientMasked ==
    InLoop =>
        /\ error = NoError
        /\ \A t \in ExamplesRead :
            \A r \in DOMAIN norm_predictor_matrix[t[3]] :
                \A c \in DOMAIN norm_predictor_matrix[t[3]][r] :
                    LET g == GradAt(files_read[t[1]], t[2], r, c)
                        s == SaliencyAt(files_read[t[1]], t[2], r, c)
                        p == norm_predictor_matrix[t[3]][r][c]
                    IN IF s.kind = "finite" /\ s.num = 0 THEN p = Fin(0)
                       ELSE IF g.kind = "finite" /\ s.kind = "finite"
                       THEN IsQuotient(p, g, s)
                       ELSE p = Fin(0)

\* the running predictor matrix shows the entry p at a pixel whose gradient
\* is g and whose saliency is s
Shows(g, s, p) ==
    \E t \in ExamplesRead :
        \E r \in DOMAIN norm_predictor_matrix[t[3]] :
            \E c \in DOMAIN norm_predictor_matrix[t[3]][r] :
                /\ GradAt(files_read[t[1]], t[2], r, c) = g
                /\ SaliencyAt(files_read[t[1]], t[2], r, c) = s
                /\ norm_predictor_matrix[t[3]][r][c] = p

\* one state shows a nonzero and a zero gradient over a zero saliency, a
\* gradient that is not a number over a nonzero saliency, and a plain quotient
C7_Witness ==
    /\ InLoop
    /\ Shows(Fin(2), Fin(0), Fin(0))
    /\ Shows(Fin(0), Fin(0), Fin(0))
    /\ Shows(NaN, Fin(2), Fin(0))
    /\ Shows(Fin(-1), Fin(2), Fraction(-1, 2))

\* C8: after any number of files, both running matrices have as many examples
\* as the files read so far hold together; the examples of file i stand before
\* those of file i + 1, each file's own order kept; and example n of the
\* predictor matrix is derived from the file and example that example n of the
\* Shapley matrix comes from.
C8_AccumulationOrder ==
    InLoop =>
        /\ Len(shapley_matrix) = TotalExamples
        /\ Len(norm_predictor_matrix) = TotalExamples
        /\ \A t \in ExamplesRead :
            LET f == files_read[t[1]]
                n == t[3]
            IN /\ n \in DOMAIN shapley_matrix
               /\ Len(shapley_matrix[n]) =
                      StridedLength(f.num_rows, spatial_coarsening_factor)
               /\ DOMAIN norm_predictor_matrix[n] = DOMAIN shapley_matrix[n]
               /\ \A r \in DOMAIN shapley_matrix[n] :
                    /\ Len(shapley_matrix[n][r]) =
                           StridedLength(f.num_columns, spatial_coarsening_factor)
                    /\ DOMAIN norm_predictor_matrix[n][r] = DOMAIN shapley_matrix[n][r]
                    /\ \A c \in DOMAIN shapley_matrix[n][r] :
                        /\ shapley_matrix[n][r][c] = GradAt(f, t[2], r, c)
                        /\ norm_predictor_matrix[n][r][c] =
                               Mask(Divide(GradAt(f, t[2], r, c),
                                           SaliencyAt(f, t[2], r, c)))

C8_Witness ==
    /\ InLoop
    /\ Len(files_read) = 2
    /\ files_read[1].num_examples = 2
    /\ files_read[1] # files_read[2]
    /\ shapley_matrix[1] # shapley_matrix[3]
    /\ Len(shapley_matrix) = 2 + files_read[2].num_examples

\* the mode axis of everything the run has computed so far has E entries
ModeAxisIsExamples ==
    /\ num_examples # Unbound => num_examples = TotalExamples
    /\ n_components # Unbound => n_components = TotalExamples
    /\ predictor_singular_value_matrix # None =>
          predictor_singular_value_matrix[2] = TotalExamples
    /\ shapley_singular_value_matrix # None =>
          shapley_singular_value_matrix[2] = TotalExamples
    /\ eigenvalues # None => eigenvalues = <<TotalExamples>>
    /\ regressed_shapley_matrix # None => regressed_shapley_matrix[1] = TotalExamples
    /\ regressed_predictor_matrix # None =>
          regressed_predictor_matrix[1] = TotalExamples

\* C9 as stated: for every number of examples E >= 1 the decomposition is
\* made with E components and every mode axis has E entries.
C9_ModesEqualExamples ==
    /\ ModeAxisIsExamples
    /\ ~(error.kind = "ValueError" /\ error.line = 330)

\* C9 as amended: the same for 1 <= E <= P, P the number of covariance
\* pixels; for E > P the decomposition rejects the E components and the run
\* aborts with no mode computed. K keeps its value for the rest of the run.
C9_ModesEqualExamplesUpToPixels ==
    /\ [](/\ ModeAxisIsExamples
          /\ error.line = 330 =>
                error.num_examples > error.num_covariance_pixels
          /\ predictor_singular_value_matrix # None =>
                (1 <= num_examples /\ num_examples <= num_covariance_pixels))
    /\ [][(num_examples # Unbound /\ pc' # "aborted") =>
             num_examples' = num_examples]_vars

C9_Witness ==
    /\ pc = "done"
    /\ Len(files_read) = 2
    /\ TotalExamples = 2
    /\ num_examples = 2
    /\ predictor_singular_value_matrix = <<2, 2>>
    /\ shapley_singular_value_matrix = <<2, 2>>
    /\ eigenvalues = <<2>>
    /\ regressed_shapley_matrix = <<2, 1, 2>>
    /\ store.arrays["eigenvalue"].shape = <<2>>

\* the stages of _run in the order of the code, by the position of the run:
\* load covariance (1), aggregate files (2), standardize (3), decompose (4, 5),
\* derive coefficients (6), regress (7), write (8), returned (9)
StageOrder ==
    <<"start", "read", "loop", "reshape", "pca", "left", "coefficients",
      "regress", "write", "done">>

Rank(p) == CHOOSE i \in DOMAIN StageOrder : StageOrder[i] = p

\* the lines of _run, or of the function it calls there, that belong to the
\* stage the run is in
StageLines(p) ==
    IF p \in {"start", "read"} THEN 236..238
    ELSE IF p = "loop" THEN 245..299
    ELSE IF p = "reshape" THEN 301..326
    ELSE IF p = "pca" THEN 328..333
    ELSE IF p = "left" THEN 335..342
    ELSE IF p = "coefficients" THEN 344..371
    ELSE IF p = "regress" THEN 373..406
    ELSE (408..418) \cup (146..223)

\* what the write stage is handed exists
EarlierStagesSucceeded ==
    /\ files_read # <<>>
    /\ num_examples = TotalExamples
    /\ predictor_singular_value_matrix # None
    /\ eigenvalues # None
    /\ shapley_singular_value_matrix # None
    /\ shapley_expansion_coeff_matrix # None
    /\ predictor_expansion_coeff_matrix # None
    /\ regressed_shapley_matrix # None
    /\ regressed_predictor_matrix # None

\* C11: _run goes through its stages once, in the order load, aggregate,
\* standardize, decompose, coefficients, regress, write; an error ends the run
\* in the stage that raised it, and nothing runs after it; the writer is
\* called only in the write stage, once, with the results of every earlier
\* stage; no step before the write stage touches the output store.
C11_SingleShotPipeline ==
    /\ [](/\ error # NoError <=> pc = "aborted"
          /\ Len(calls) <= 1
          /\ Len(wcalls) <= 1
          /\ (wpc # "idle" \/ wcalls # <<>>) =>
                (pc \in {"write", "done"} /\ EarlierStagesSucceeded)
          /\ (pc = "aborted" /\ error.line < 408) =>
                (wpc = "idle" /\ wcalls = <<>>))
    /\ [][/\ pc \notin {"aborted", "done"}
          /\ pc' # "aborted" => Rank(pc') \in {Rank(pc), Rank(pc) + 1}
          /\ pc' = "aborted" => error'.line \in StageLines(pc)
          /\ pc # "write" => UNCHANGED <<store, wpc, wargs, wcalls>>]_vars

\* a run that found a store at the output path and failed while deriving the
\* coefficients: the store is the one it found
C11_Witness ==
    /\ pc = "aborted"
    /\ error.kind = "ValueError"
    /\ error.line = 345
    /\ store = OldStore(WriterArgs(1, 1, 1), TRUE)
    /\ wcalls = <<>>

----------------------------------------------------------------------------
(* The migration of _read_covariance_matrix when the disk fails *)

\* what a write that failed part-way leaves at the '.zarr' path: a directory
\* without the array, or one whose array lacks chunks (it reads as a matrix
\* of the right size with fill values)
PartialDirs(matrix) == {Dir(NoMatrix), Dir(CovMatrix(matrix.pixels, "partial"))}

\* the disks a call of _write_results that raises may leave: untouched, or
\* with a partly written store
FailedWriteDisks(name, matrix) ==
    {fs} \cup {[fs EXCEPT ![name] = d] : d \in PartialDirs(matrix)}

\* the call ends by the exception of a migration step
EndCallRaised(e) ==
    /\ ret' = Raised(e)
    /\ rpc' = "ended"
    /\ calls' = [calls EXCEPT ![Len(calls)].post = fs',
                              ![Len(calls)].ret = ret']
    /\ UNCHANGED <<pc, covariance_file_name, rd_covariance_matrix,
                   netcdf_file_name, zarr_file_name>>
    /\ UNCHANGED <<error, loopVars, mcaVars, writerVars>>

\* mutant: the exception of the write is swallowed and the legacy file removed
MigrateWriteFailsThenRemoves ==
    /\ rpc = "write"
    /\ \E disk \in FailedWriteDisks(zarr_file_name, rd_covariance_matrix) :
        fs' = [disk EXCEPT ![netcdf_file_name] = NoEntry]
    /\ ret' = Returned(rd_covariance_matrix)
    /\ rpc' = "ended"
    /\ calls' = [calls EXCEPT ![Len(calls)].post = fs',
                              ![Len(calls)].ret = ret']
    /\ UNCHANGED <<pc, covariance_file_name, rd_covariance_matrix,
                   netcdf_file_name, zarr_file_name>>
    /\ UNCHANGED <<error, loopVars, mcaVars, writerVars>>

\* lines 109-112: _write_results raises; nothing catches it, so line 114 is
\* not reached
MigrateWriteFails ==
    /\ rpc = "write"
    /\ fs' \in FailedWriteDisks(zarr_file_name, rd_covariance_matrix)
    /\ EndCallRaised("write_error")

\* line 114: os.remove raises and the file stays
MigrateRemoveFails ==
    /\ rpc = "remove"
    /\ fs' = fs
    /\ EndCallRaised("remove_error")

NextMigrate ==
    \/ HarnessRead
    \/ MigrateWrite
    \/ MigrateWriteFails
    \/ MigrateRemove
    \/ MigrateRemoveFails

SpecMigrate == InitRead /\ [][NextMigrate]_vars

\* the disk holds the whole matrix m in one of the two representations
Complete(disk, m) == disk[NcName] = File(m) \/ disk[ZarrName] = Dir(m)

\* C12: the legacy file is deleted only when the chunked store already holds
\* the matrix that was read from it; at every step of a load that reads the
\* legacy file, and after it, however it ends, the disk holds that matrix
\* whole in the legacy file or in the chunked store; a load whose write fails
\* ends with the legacy file as it found it.
C12_LegacyDeletedAfterWrite ==
    /\ [](/\ rpc \in {"write", "remove"} =>
                fs[netcdf_file_name] = File(rd_covariance_matrix)
          /\ \A i \in DOMAIN calls :
                ReadsLegacy(calls[i].path, calls[i].pre) =>
                    LET m == calls[i].pre[NcName].data IN
                    /\ Complete(calls[i].post, m)
                    /\ i = Len(calls) => Complete(fs, m)
                    /\ calls[i].ret.outcome = "raised" =>
                          calls[i].post[NcName] = calls[i].pre[NcName]
                    /\ calls[i].post[NcName] # calls[i].pre[NcName] =>
                          calls[i].post[ZarrName] = Dir(m))
    /\ [][fs'[NcName] # fs[NcName] =>
             (/\ fs'[NcName] = NoEntry
              /\ fs[ZarrName] = Dir(fs[NcName].data)
              /\ fs'[ZarrName] = fs[ZarrName])]_vars

\* a load that found the legacy file and an older chunked store, and whose
\* write failed part-way: the store is spoilt, the legacy file still there
C12_Witness ==
    \E i \in DOMAIN calls :
        /\ calls[i].path = NcName
        /\ HasNc(calls[i].pre)
        /\ calls[i].pre[ZarrName] \in {Dir(m) : m \in CovMatrices}
        /\ calls[i].ret = Raised("write_error")
        /\ calls[i].post[ZarrName] \in PartialDirs(calls[i].pre[NcName].data)
        /\ calls[i].post[NcName] = calls[i].pre[NcName]

====
